---- MODULE Spec2Model ----
(***************************************************************************)
(* Model of sopa/io/explorer/transcripts.py: write_transcripts builds a    *)
(* multi-resolution tile pyramid of transcripts and writes it to a zarr    *)
(* zip store.  Coordinates are modelled as integers (every value used is   *)
(* exactly representable in float64 and in float32), so floor(x / t) is    *)
(* x \div t and ceil(x / t) is -((-x) \div t).                              *)
(***************************************************************************)
EXTENDS Integers, Sequences, FiniteSets, TLC

\* ------------------------------------------------------------ constants
MAX_LEVELS == 15
GRID_SIZE == 250
QUALITY_SCORE == 40
\* default value of subsample_indices' parameter `factor`
DefaultFactor == 4
\* second column of uuid, transcript_id and codeword_identity
Sentinel == 65535

\* ------------------------------------------------------------ bounds
\* largest table of the sparse input family
MaxPoints == 3
\* largest table of the dense input family (tables of 2 * DefaultFactor rows
\* and more, so that a subsample keeps at least two rows)
MaxDense == 8
\* length of the row pattern a dense table repeats
DensePeriod == 3

\* ------------------------------------------------------------ inputs
Pt(px, py, g) == [x |-> px, y |-> py, gene |-> g]

\* distinct gene names of the inputs, in ascending lexicographic order
GeneUniverse == <<"A", "B", "C">>

\* rows of the sparse inputs: the origin, a zero x, an interior point, a point
\* on a level-0 tile edge, points past the first tile, and negative coordinates
PointChoices ==
    { Pt(0, 0, "A"), Pt(0, 100, "B"), Pt(100, 100, "A"), Pt(250, 100, "B"),
      Pt(300, 300, "C"), Pt(600, 100, "A"), Pt(-1, 100, "A"), Pt(100, -1, "B") }

\* rows of the dense inputs
DensePoints == { Pt(100, 100, "A"), Pt(300, 100, "C"), Pt(600, 300, "B") }

SparseInputs == UNION { [1..n -> PointChoices] : n \in 0..MaxPoints }

\* tables of n rows repeating a pattern of DensePeriod rows
DenseInputs ==
    UNION { { [i \in 1..n |-> head[((i - 1) % DensePeriod) + 1]] :
                head \in [1..DensePeriod -> DensePoints] } :
            n \in (2 * DefaultFactor)..MaxDense }

Inputs == SparseInputs \cup DenseInputs

\* ------------------------------------------------------------ helpers
Range(s) == { s[i] : i \in DOMAIN s }

RECURSIVE SumSeq(_)
SumSeq(s) == IF s = <<>> THEN 0 ELSE s[1] + SumSeq(Tail(s))

RECURSIVE Pow2(_)
Pow2(n) == IF n = 0 THEN 1 ELSE 2 * Pow2(n - 1)

SetMax(S) == CHOOSE m \in S : \A v \in S : v <= m

SetMin(S) == CHOOSE m \in S : \A v \in S : m <= v

\* math.floor(a / b) and math.ceil(a / b) for b > 0
Floor(a, b) == a \div b

Ceil(a, b) == -((-a) \div b)

\* numpy fancy indexing arr[idx] with 0-based row numbers idx
Take(arr, idx) == [i \in 1..Len(idx) |-> arr[idx[i] + 1]]

\* list[-1].append(v) on a list of lists
AppendToLast(ll, v) == [ll EXCEPT ![Len(ll)] = Append(@, v)]

\* ------------------------------------------------------------ state
VARIABLES
    df,                 \* the input table (rows of x, y, gene)
    file,               \* the output path: "absent", "stale", "open", "closed"
    pc,                 \* position in write_transcripts
    xmax, ymax,         \* bounding box of the full-resolution table
    location, valid, status, gene_identity, quality_score,
    codeword_identity, uuid, transcript_id,   \* the working set's arrays
    ATTRS, GRIDS_ATTRS, \* the two attribute maps
    level, tile_size, tiles_str_indices, n_tiles_x, n_tiles_y, tx, ty,
    sub_indices,        \* the last selection drawn by subsample_indices
    store               \* the writes made to the container, in order

arrays == <<location, valid, status, gene_identity, quality_score,
            codeword_identity, uuid, transcript_id>>

loopvars == <<level, tile_size, tiles_str_indices, n_tiles_x, n_tiles_y, tx, ty>>

vars == <<df, file, pc, xmax, ymax, arrays, ATTRS, GRIDS_ATTRS, loopvars,
          sub_indices, store>>

\* ------------------------------------------------------------ preparation
num_transcripts == Len(df)

\* df[gene].astype("category").cat.categories: the distinct names, sorted
gene_names(d) == SelectSeq(GeneUniverse, LAMBDA g : \E i \in DOMAIN d : d[i].gene = g)

\* df[gene].cat.codes: the position of the row's name among the categories
GeneCode(d, g) == (CHOOSE k \in DOMAIN gene_names(d) : gene_names(d)[k] = g) - 1

\* NonNegative with the assert on the y column left out
NonNegativeXOnly(loc) == SetMin({ loc[i][1] : i \in DOMAIN loc }) >= 0

\* the two asserts on location[:, 0].min() and location[:, 1].min()
NonNegative(loc) == /\ SetMin({ loc[i][1] : i \in DOMAIN loc }) >= 0
                    /\ SetMin({ loc[i][2] : i \in DOMAIN loc }) >= 0

InitialLocation(d) == [i \in DOMAIN d |-> <<d[i].x, d[i].y, 0>>]

InitialUuid(n) == [i \in 1..n |-> <<i - 1, Sentinel>>]

InitialGeneIdentity(d) == [i \in DOMAIN d |-> <<GeneCode(d, d[i].gene)>>]

InitialCodewordIdentity(d) == [i \in DOMAIN d |-> <<GeneCode(d, d[i].gene), Sentinel>>]

RootAttrs(d) ==
    [ codeword_count |-> Len(gene_names(d)),
      codeword_gene_mapping |-> [k \in 1..Len(gene_names(d)) |-> k - 1],
      codeword_gene_names |-> gene_names(d),
      gene_names |-> gene_names(d),
      gene_index_map |-> [g \in Range(gene_names(d)) |-> GeneCode(d, g)],
      number_genes |-> Len(gene_names(d)),
      spatial_units |-> "micron",
      coordinate_space |-> "refined-final_global_micron",
      major_version |-> 4,
      minor_version |-> 1,
      name |-> "RnaDataset",
      number_rnas |-> Len(d),
      dataset_uuid |-> "unique-id-test",
      data_format |-> 0 ]

InitialGridsAttrs ==
    [ grid_key_names |-> <<"grid_x_loc", "grid_y_loc">>,
      grid_zip |-> FALSE,
      grid_size |-> <<GRID_SIZE>>,
      grid_array_shapes |-> <<>>,
      grid_number_objects |-> <<>>,
      grid_keys |-> <<>> ]

Init ==
    /\ df \in Inputs
    /\ file \in {"absent", "stale"}
    /\ pc = "prepare"
    /\ xmax = 0 /\ ymax = 0
    /\ location = <<>> /\ valid = <<>> /\ status = <<>> /\ gene_identity = <<>>
    /\ quality_score = <<>> /\ codeword_identity = <<>> /\ uuid = <<>>
    /\ transcript_id = <<>>
    /\ ATTRS = <<>> /\ GRIDS_ATTRS = <<>>
    /\ level = 0 /\ tile_size = 0 /\ tiles_str_indices = <<>>
    /\ n_tiles_x = 0 /\ n_tiles_y = 0 /\ tx = 0 /\ ty = 0
    /\ sub_indices = <<>>
    /\ store = <<>>

\* lines 23-32 raise: max() of an empty column, or a failed assert
PrepareRaises(d) == IF Len(d) = 0 THEN TRUE ELSE ~NonNegative(InitialLocation(d))

\* lines 23-79 when nothing raises
Prepare ==
    /\ pc = "prepare"
    /\ ~PrepareRaises(df)
    /\ location' = InitialLocation(df)
    /\ xmax' = SetMax({ df[i].x : i \in DOMAIN df })
    /\ ymax' = SetMax({ df[i].y : i \in DOMAIN df })
    /\ valid' = [i \in DOMAIN df |-> <<1>>]
    /\ uuid' = InitialUuid(num_transcripts)
    /\ transcript_id' = InitialUuid(num_transcripts)
    /\ gene_identity' = InitialGeneIdentity(df)
    /\ codeword_identity' = InitialCodewordIdentity(df)
    /\ status' = [i \in DOMAIN df |-> <<0>>]
    /\ quality_score' = [i \in DOMAIN df |-> <<QUALITY_SCORE>>]
    /\ ATTRS' = RootAttrs(df)
    /\ GRIDS_ATTRS' = InitialGridsAttrs
    /\ pc' = "open"
    /\ UNCHANGED <<df, file, loopvars, sub_indices, store>>

\* lines 23-32 when the table is empty or holds a negative coordinate: the
\* exception leaves write_transcripts before line 81
PrepareFail ==
    /\ pc = "prepare"
    /\ PrepareRaises(df)
    /\ pc' = "failed"
    /\ UNCHANGED <<df, file, xmax, ymax, arrays, ATTRS, GRIDS_ATTRS, loopvars,
                   sub_indices, store>>

\* ------------------------------------------------------------ the store
\* dtype casts made by tile_group.array(..., dtype=...)
CastUInt8(v) == v % 256

CastUInt16(v) == v % 65536

\* v mod 2^32, computed in 16-bit halves
CastUInt32(v) == (v % 65536) + 65536 * ((v \div 65536) % 65536)

RECURSIVE Ulp(_)
Ulp(v) == IF v < 16777216 THEN 1 ELSE 2 * Ulp(v \div 2)

\* float64 -> float32 of a whole number: round to a 24-bit significand, ties
\* to even
RoundToUlp(v) ==
    LET s == Ulp(v)
        q == v \div s
        r == v % s
    IN  IF 2 * r < s THEN q * s
        ELSE IF 2 * r > s THEN (q + 1) * s
        ELSE IF q % 2 = 0 THEN q * s ELSE (q + 1) * s

CastFloat32(v) == IF v >= 0 THEN RoundToUlp(v) ELSE -RoundToUlp(-v)

\* an array stored with the dtype, entry by entry
RowsUInt8(arr) == [i \in DOMAIN arr |-> [j \in DOMAIN arr[i] |-> CastUInt8(arr[i][j])]]

RowsUInt16(arr) == [i \in DOMAIN arr |-> [j \in DOMAIN arr[i] |-> CastUInt16(arr[i][j])]]

RowsUInt32(arr) == [i \in DOMAIN arr |-> [j \in DOMAIN arr[i] |-> CastUInt32(arr[i][j])]]

RowsFloat32(arr) == [i \in DOMAIN arr |-> [j \in DOMAIN arr[i] |-> CastFloat32(arr[i][j])]]

NoArrays ==
    [ valid |-> <<>>, status |-> <<>>, location |-> <<>>, gene_identity |-> <<>>,
      quality_score |-> <<>>, codeword_identity |-> <<>>, uuid |-> <<>>, id |-> <<>> ]

\* one write to the container: a group created (with the arrays stored under
\* it, for a tile group) or an attribute map put on a group.  tx, ty and
\* level repeat, as numbers, what the path of a tile group says as text.
GroupEvent(path) ==
    [ kind |-> "group", path |-> path, level |-> -1, tx |-> -1, ty |-> -1,
      arrays |-> NoArrays, attrs |-> <<>> ]

AttrsEvent(path, attrs) ==
    [ kind |-> "attrs", path |-> path, level |-> -1, tx |-> -1, ty |-> -1,
      arrays |-> NoArrays, attrs |-> attrs ]

TileEvent(lvl, key, kx, ky, arrs) ==
    [ kind |-> "tile", path |-> <<"grids", ToString(lvl), key>>, level |-> lvl,
      tx |-> kx, ty |-> ky, arrays |-> arrs, attrs |-> <<>> ]

\* lines 81-88: remove a file at the path, open the store, write the root
\* group with its attributes, create the group grids
OpenStore ==
    /\ pc = "open"
    /\ file' = "open"
    /\ store' = <<GroupEvent(<<>>), AttrsEvent(<<>>, ATTRS), GroupEvent(<<"grids">>)>>
    /\ level' = 0
    /\ pc' = "level"
    /\ UNCHANGED <<df, xmax, ymax, arrays, ATTRS, GRIDS_ATTRS, tile_size,
                   tiles_str_indices, n_tiles_x, n_tiles_y, tx, ty, sub_indices>>

\* ------------------------------------------------------------ the tiler
\* TileSize without the doubling per level
TileSizeNoDoubling(lvl) == GRID_SIZE

TileSize(lvl) == GRID_SIZE * Pow2(lvl)

\* f"{tx},{ty}"
StrIndex(kx, ky) == ToString(kx) \o "," \o ToString(ky)

\* ndarray.clip(0)
Clip0(v) == IF v < 0 THEN 0 ELSE v

\* line 97, for one row
TileIndex(row, t) == <<Clip0(Floor(row[1], t)), Clip0(Floor(row[2], t))>>

\* lines 97-98
TilesStrIndices(loc, t) ==
    [i \in DOMAIN loc |-> StrIndex(TileIndex(loc[i], t)[1], TileIndex(loc[i], t)[2])]

\* np.where(tiles_str_indices == str_index)[0]: the matching row numbers,
\* 0-based and ascending
Loc(tsi, key) ==
    LET F[i \in 0..Len(tsi)] ==
            IF i = 0 THEN <<>>
            ELSE IF tsi[i] = key THEN Append(F[i - 1], i - 1) ELSE F[i - 1]
    IN  F[Len(tsi)]

\* IsEmptyTile with the test of line 114 left out
IsEmptyTileNever(n_points_tile) == FALSE

\* line 114
IsEmptyTile(n_points_tile) == n_points_tile = 0

\* NextTile with the two loops exchanged
NextTileYOuter(ntx, nty, cx, cy) == IF cx + 1 < ntx THEN <<cx + 1, cy>> ELSE <<0, cy + 1>>

\* the position after (cx, cy) in
\*   for tx in range(n_tiles_x): for ty in range(n_tiles_y)
NextTile(ntx, nty, cx, cy) == IF cy + 1 < nty THEN <<cx, cy + 1>> ELSE <<cx + 1, 0>>

\* the nested loops have a current iteration
InLoop == tx < n_tiles_x /\ ty < n_tiles_y

\* lines 91-104
BeginLevel ==
    /\ pc = "level"
    /\ store' = Append(store, GroupEvent(<<"grids", ToString(level)>>))
    /\ tile_size' = TileSize(level)
    /\ tiles_str_indices' = TilesStrIndices(location, TileSize(level))
    /\ GRIDS_ATTRS' = [GRIDS_ATTRS EXCEPT !.grid_array_shapes = Append(@, <<>>),
                                          !.grid_number_objects = Append(@, <<>>),
                                          !.grid_keys = Append(@, <<>>)]
    /\ n_tiles_x' = Ceil(xmax, TileSize(level))
    /\ n_tiles_y' = Ceil(ymax, TileSize(level))
    /\ tx' = 0 /\ ty' = 0
    /\ pc' = "tiles"
    /\ UNCHANGED <<df, file, xmax, ymax, arrays, ATTRS, level, sub_indices>>

\* the eight arrays stored under a tile group, lines 122-169
TileArrays(loc) ==
    [ valid |-> RowsUInt8(Take(valid, loc)),
      status |-> RowsUInt8(Take(status, loc)),
      location |-> RowsFloat32(Take(location, loc)),
      gene_identity |-> RowsUInt16(Take(gene_identity, loc)),
      quality_score |-> RowsFloat32(Take(quality_score, loc)),
      codeword_identity |-> RowsUInt16(Take(codeword_identity, loc)),
      uuid |-> RowsUInt32(Take(uuid, loc)),
      id |-> RowsUInt32(Take(transcript_id, loc)) ]

\* one iteration of the loops, lines 108-169, for a tile that holds points
WriteTile ==
    /\ pc = "tiles"
    /\ InLoop
    /\ LET str_index == StrIndex(tx, ty)
           loc == Loc(tiles_str_indices, str_index)
           n_points_tile == Len(loc)
       IN  /\ ~IsEmptyTile(n_points_tile)
           /\ GRIDS_ATTRS' =
                [GRIDS_ATTRS EXCEPT
                    !.grid_array_shapes = AppendToLast(@, <<>>),
                    !.grid_keys = AppendToLast(@, str_index),
                    !.grid_number_objects = AppendToLast(@, n_points_tile)]
           /\ store' = Append(store, TileEvent(level, str_index, tx, ty, TileArrays(loc)))
    /\ tx' = NextTile(n_tiles_x, n_tiles_y, tx, ty)[1]
    /\ ty' = NextTile(n_tiles_x, n_tiles_y, tx, ty)[2]
    /\ UNCHANGED <<df, file, pc, xmax, ymax, arrays, ATTRS, level, tile_size,
                   tiles_str_indices, n_tiles_x, n_tiles_y, sub_indices>>

\* one iteration of the loops, lines 108-115, for a tile without points
SkipTile ==
    /\ pc = "tiles"
    /\ InLoop
    /\ IsEmptyTile(Len(Loc(tiles_str_indices, StrIndex(tx, ty))))
    /\ tx' = NextTile(n_tiles_x, n_tiles_y, tx, ty)[1]
    /\ ty' = NextTile(n_tiles_x, n_tiles_y, tx, ty)[2]
    /\ UNCHANGED <<df, file, pc, xmax, ymax, arrays, ATTRS, GRIDS_ATTRS, level,
                   tile_size, tiles_str_indices, n_tiles_x, n_tiles_y,
                   sub_indices, store>>

\* ------------------------------------------------------------ level end
\* lines 171-173
Terminate ==
    /\ pc = "tiles"
    /\ ~InLoop
    /\ n_tiles_x * n_tiles_y = 1
    /\ GRIDS_ATTRS' = ("number_levels" :> (level + 1)) @@ GRIDS_ATTRS
    /\ pc' = "put"
    /\ UNCHANGED <<df, file, xmax, ymax, arrays, ATTRS, loopvars, sub_indices, store>>

\* NSub rounding up
NSubCeil(n_samples, factor) == Ceil(n_samples, factor)

\* line 11
NSub(n_samples, factor) == n_samples \div factor

\* SubsampleIndices drawing with replacement
SubsampleIndicesWithReplacement(n_samples, factor) ==
    [1..(n_samples \div factor) -> 0..(n_samples - 1)]

\* line 12: np.random.choice(n_samples, n_sub, replace=False) returns n_sub
\* pairwise different numbers of 0..n_samples-1, in any order
SubsampleIndices(n_samples, factor) ==
    { s \in [1..NSub(n_samples, factor) -> 0..(n_samples - 1)] :
        \A i, j \in DOMAIN s : i # j => s[i] # s[j] }

\* SubsampledUuid numbering the kept rows afresh
SubsampledUuidRenumbered(arr, idx) == [i \in 1..Len(idx) |-> <<i - 1, Sentinel>>]

\* line 183
SubsampledUuid(arr, idx) == Take(arr, idx)

\* lines 175-184, then the loop's next iteration or its end
Subsample ==
    /\ pc = "tiles"
    /\ ~InLoop
    /\ n_tiles_x * n_tiles_y # 1
    /\ \E s \in SubsampleIndices(Len(location), DefaultFactor) :
        /\ sub_indices' = s
        /\ location' = Take(location, s)
        /\ valid' = Take(valid, s)
        /\ status' = Take(status, s)
        /\ gene_identity' = Take(gene_identity, s)
        /\ quality_score' = Take(quality_score, s)
        /\ codeword_identity' = Take(codeword_identity, s)
        /\ uuid' = SubsampledUuid(uuid, s)
        /\ transcript_id' = Take(transcript_id, s)
    /\ level' = level + 1
    /\ pc' = IF level + 1 < MAX_LEVELS THEN "level" ELSE "put"
    /\ UNCHANGED <<df, file, xmax, ymax, ATTRS, GRIDS_ATTRS, tile_size,
                   tiles_str_indices, n_tiles_x, n_tiles_y, tx, ty, store>>

\* line 186, and the store closed on leaving the with block
PutGridsAttrs ==
    /\ pc = "put"
    /\ store' = Append(store, AttrsEvent(<<"grids">>, GRIDS_ATTRS))
    /\ file' = "closed"
    /\ pc' = "done"
    /\ UNCHANGED <<df, xmax, ymax, arrays, ATTRS, GRIDS_ATTRS, loopvars, sub_indices>>

Next ==
    \/ Prepare
    \/ PrepareFail
    \/ OpenStore
    \/ BeginLevel
    \/ WriteTile
    \/ SkipTile
    \/ Terminate
    \/ Subsample
    \/ PutGridsAttrs

Spec == Init /\ [][Next]_vars

\* ============================================================ properties
\* what the properties read off the state
Prepared == pc \notin {"prepare", "failed"}

HasNegative(d) == \E i \in DOMAIN d : d[i].x < 0 \/ d[i].y < 0

TileEventIndices == { i \in DOMAIN store : store[i].kind = "tile" }

LevelsBuilt == Len(GRIDS_ATTRS.grid_keys)

\* the level loop has finished the tile loops of the current level
LevelTiled == pc = "tiles" /\ ~InLoop

\* ------------------------------------------------------------ C1
\* C1: when the tiles of a level have all been visited, the entries of
\* grid_number_objects for that level add up to the number of rows of the
\* working set the level was built from.
C1_SumEqualsWorkingCount ==
    LevelTiled =>
        SumSeq(GRIDS_ATTRS.grid_number_objects[LevelsBuilt]) = Len(location)

\* ------------------------------------------------------------ C2
\* levels at which the bounding box fits inside one tile
FittingLevels ==
    { l \in 0..(MAX_LEVELS - 1) :
        xmax <= GRID_SIZE * Pow2(l) /\ ymax <= GRID_SIZE * Pow2(l) }

\* C2: with L the first level at which the bounding box fits inside one tile,
\* a finished run has built levels 0..L, recorded number_levels = L + 1,
\* subsampled L times only, and created no level group beyond L.
C2_StopsAtFirstFittingLevel ==
    (pc = "done" /\ FittingLevels # {}) =>
        LET L == SetMin(FittingLevels)
        IN  /\ LevelsBuilt = L + 1
            /\ "number_levels" \in DOMAIN GRIDS_ATTRS
            /\ GRIDS_ATTRS["number_levels"] = L + 1
            /\ level = L
            /\ \A i \in DOMAIN store :
                   Len(store[i].path) >= 2 =>
                       \E l \in 0..L : store[i].path[2] = ToString(l)

\* ------------------------------------------------------------ C3
\* C3: every step that moves from a level to the next one replaces a working
\* set of n rows by floor(n / 4) rows, the rows numbered sub_indices, which
\* are pairwise different numbers of 0..n-1.
C3_SubsamplingLaw ==
    [][ level' = level + 1 =>
          LET n == Len(location)
          IN  /\ Len(location') = n \div 4
              /\ Len(sub_indices') = n \div 4
              /\ \A i \in DOMAIN sub_indices' : sub_indices'[i] \in 0..(n - 1)
              /\ \A i, j \in DOMAIN sub_indices' :
                     i # j => sub_indices'[i] # sub_indices'[j]
              /\ \A i \in DOMAIN location' :
                     location'[i] = location[sub_indices'[i] + 1] ]_vars

\* a level above 0 is being tiled from a working set of two rows or more
C3_Witness == pc = "tiles" /\ level >= 1 /\ Len(sub_indices) >= 2 /\ Len(location) >= 2

\* ------------------------------------------------------------ C4
\* C4: a table with a negative x or y fails before line 81: the run is at
\* its start or has failed, the path is as it was, nothing was written.
C4_NegativeInputWritesNothing ==
    HasNegative(df) =>
        /\ pc \in {"prepare", "failed"}
        /\ file \in {"absent", "stale"}
        /\ store = <<>>

\* a run on a table with a negative y only has failed
C4_Witness ==
    /\ pc = "failed"
    /\ \E i \in DOMAIN df : df[i].y < 0
    /\ \A i \in DOMAIN df : df[i].x >= 0

\* ------------------------------------------------------------ C5
\* C5: the attribute map put on the group grids by a finished run holds
\* number_levels, equal to the length of each per-level list.
C5_NumberLevelsWritten ==
    pc = "done" =>
        LET a == store[Len(store)].attrs
        IN  /\ "number_levels" \in DOMAIN a
            /\ a["number_levels"] = Len(a.grid_keys)
            /\ a["number_levels"] = Len(a.grid_number_objects)
            /\ a["number_levels"] = Len(a.grid_array_shapes)

\* ------------------------------------------------------------ C6
\* n_tiles_x * n_tiles_y of level l for the table d
TileProduct(d, l) ==
    Ceil(SetMax({ d[i].x : i \in DOMAIN d }), GRID_SIZE * Pow2(l))
        * Ceil(SetMax({ d[i].y : i \in DOMAIN d }), GRID_SIZE * Pow2(l))

\* a valid table of 1 to 3 rows whose level 0 is not terminal
FewPointsNotTerminal ==
    /\ Len(df) \in 1..3
    /\ ~HasNegative(df)
    /\ TileProduct(df, 0) # 1

\* C6: on such a table the run never fails, every level after level 0 has an
\* empty working set, no tile group and empty metadata lists, and a finished
\* run has written the grids attributes after stopping at the first level
\* whose tile product is 1, or after MAX_LEVELS levels when there is none.
C6_FewPointsGiveEmptyLevels ==
    FewPointsNotTerminal =>
        /\ pc # "failed"
        /\ level >= 1 => Len(location) = 0
        /\ \A i \in TileEventIndices : store[i].level = 0
        /\ Prepared =>
             \A l \in 2..LevelsBuilt :
                 /\ GRIDS_ATTRS.grid_keys[l] = <<>>
                 /\ GRIDS_ATTRS.grid_number_objects[l] = <<>>
        /\ pc = "done" =>
             /\ store[Len(store)].kind = "attrs"
             /\ store[Len(store)].path = <<"grids">>
             /\ \A l \in 0..(LevelsBuilt - 2) : TileProduct(df, l) # 1
             /\ IF TileProduct(df, LevelsBuilt - 1) = 1
                   THEN GRIDS_ATTRS["number_levels"] = LevelsBuilt
                   ELSE LevelsBuilt = MAX_LEVELS

\* such a run has finished at an empty level 1 whose tile product is 1
C6_Witness ==
    /\ FewPointsNotTerminal
    /\ pc = "done"
    /\ LevelsBuilt = 2
    /\ GRIDS_ATTRS.grid_keys[1] # <<>>
    /\ GRIDS_ATTRS.grid_keys[2] = <<>>

\* ------------------------------------------------------------ C7
\* C7: every row of the working set is one row of the input table: its uuid
\* names the row's number k in the full table, and its location, gene code,
\* codeword identity and id are those computed for row k before any
\* subsampling; the constant columns have one entry per row.
C7_RowsKeepTheirAttributes ==
    Prepared =>
        /\ \A a \in {valid, status, gene_identity, quality_score,
                     codeword_identity, uuid, transcript_id} :
               Len(a) = Len(location)
        /\ \A i \in DOMAIN location :
               LET k == uuid[i][1]
               IN  /\ k \in 0..(Len(df) - 1)
                   /\ uuid[i] = <<k, 65535>>
                   /\ transcript_id[i] = <<k, 65535>>
                   /\ location[i] = <<df[k + 1].x, df[k + 1].y, 0>>
                   /\ gene_identity[i] = <<GeneCode(df, df[k + 1].gene)>>
                   /\ codeword_identity[i] = <<GeneCode(df, df[k + 1].gene), 65535>>
                   /\ valid[i] = <<1>> /\ status[i] = <<0>> /\ quality_score[i] = <<40>>

\* a subsampled working set whose first row is not row 0 of the table and
\* differs from it in place and gene
C7_Witness ==
    /\ Prepared
    /\ level >= 1
    /\ Len(location) >= 2
    /\ uuid[1][1] # 0
    /\ location[1] # <<df[1].x, df[1].y, 0>>
    /\ gene_identity[1] # <<GeneCode(df, df[1].gene)>>

\* ------------------------------------------------------------ C8
\* the full-table row numbers stored under the tile group written by event e
StoredRows(e) == { e.arrays.uuid[i][1] : i \in DOMAIN e.arrays.uuid }

TileEventsOfLevel(l) == { i \in TileEventIndices : store[i].level = l - 1 }

\* C9: the three per-level lists have one entry per level built and, within
\* a level, one entry per tile group written; the i-th key names a tile
\* group written at that level whose eight arrays hold exactly
\* grid_number_objects[i] >= 1 rows; keys of a level are pairwise different;
\* every tile group written is listed.
C9_MetadataMirrorsTileGroups ==
    Prepared =>
        LET keys == GRIDS_ATTRS.grid_keys
            counts == GRIDS_ATTRS.grid_number_objects
            shapes == GRIDS_ATTRS.grid_array_shapes
        IN  /\ Len(counts) = Len(keys) /\ Len(shapes) = Len(keys)
            /\ \A l \in DOMAIN keys :
                 /\ Len(counts[l]) = Len(keys[l]) /\ Len(shapes[l]) = Len(keys[l])
                 /\ Cardinality(TileEventsOfLevel(l)) = Len(keys[l])
                 /\ \A i, j \in DOMAIN keys[l] : i # j => keys[l][i] # keys[l][j]
                 /\ \A i \in DOMAIN keys[l] :
                      /\ counts[l][i] >= 1
                      /\ \E k \in TileEventsOfLevel(l) :
                           /\ store[k].path = <<"grids", ToString(l - 1), keys[l][i]>>
                           /\ \A a \in DOMAIN store[k].arrays :
                                  Len(store[k].arrays[a]) = counts[l][i]
                 /\ \A k \in TileEventsOfLevel(l) :
                      \E i \in DOMAIN keys[l] : store[k].path[3] = keys[l][i]
            /\ \A k \in TileEventIndices : store[k].level + 1 \in DOMAIN keys

\* a finished run that skipped an empty tile at level 0 and wrote tile groups
\* at two levels
C9_Witness ==
    /\ pc = "done"
    /\ Len(GRIDS_ATTRS.grid_keys[1]) >= 2
    /\ Len(GRIDS_ATTRS.grid_keys[1])
         < Ceil(xmax, GRID_SIZE) * Ceil(ymax, GRID_SIZE)
    /\ LevelsBuilt >= 2
    /\ GRIDS_ATTRS.grid_keys[2] # <<>>

\* ------------------------------------------------------------ C10
GroupEventIndices == { i \in DOMAIN store : store[i].kind \in {"group", "tile"} }

AttrsEventIndices == { i \in DOMAIN store : store[i].kind = "attrs" }

\* C10: the root attributes are the first thing written after the root group
\* itself; tile groups are written level by level, each after its level's
\* group, within a level in ascending tx and then ascending ty; no group is
\* created twice and no attribute map put twice; the grids attributes are the
\* last write, made only by the step that ends the run.
C10_WritesOnceInLevelThenTileOrder ==
    /\ store # <<>> =>
         /\ store[1].kind = "group" /\ store[1].path = <<>>
         /\ store[2].kind = "attrs" /\ store[2].path = <<>>
    /\ \A i, j \in TileEventIndices :
         i < j =>
            \/ store[i].level < store[j].level
            \/ /\ store[i].level = store[j].level
               /\ \/ store[i].tx < store[j].tx
                  \/ store[i].tx = store[j].tx /\ store[i].ty < store[j].ty
    /\ \A j \in TileEventIndices :
         /\ \E i \in 1..(j - 1) :
               /\ store[i].kind = "group"
               /\ store[i].path = <<"grids", ToString(store[j].level)>>
         /\ \A i \in 1..(j - 1) :
               \A l \in (store[j].level + 1)..MAX_LEVELS :
                   store[i].path # <<"grids", ToString(l)>>
    /\ \A i, j \in GroupEventIndices : i # j => store[i].path # store[j].path
    /\ \A i, j \in AttrsEventIndices : i # j => store[i].path # store[j].path
    /\ \A i \in AttrsEventIndices :
         store[i].path = <<"grids">> => (i = Len(store) /\ pc = "done")
    /\ pc = "done" =>
         /\ store[Len(store)].kind = "attrs"
         /\ store[Len(store)].path = <<"grids">>

\* a finished run wrote, at one level, a tile group with a larger ty before
\* one with a larger tx
C10_Witness ==
    /\ pc = "done"
    /\ \E i, j \in TileEventIndices :
         /\ i < j
         /\ store[i].level = store[j].level
         /\ store[i].tx < store[j].tx
         /\ store[i].ty > store[j].ty

====
